---- MODULE Spec2Model ----
(***************************************************************************)
(* The brain-python service of ghoul-system (src/brain-python/main.py):    *)
(* the technical cache and the data-source fallback of get_technicals, the *)
(* provider fallback chain of analyze, the JSON extractor and the keyword  *)
(* fallback.                                                               *)
(*                                                                         *)
(* Each request is a process p with a program counter pc[p]; one action    *)
(* is one step of the code between two external calls.  External services  *)
(* (Yahoo, Finnhub, Groq, Hugging Face, Gemini) answer nondeterministically*)
(* from the outcome sets below.                                            *)
(*                                                                         *)
(* Python values are encoded as records of one shape per type, so that     *)
(* None is a value of the same shape with isNone = TRUE.                   *)
(*                                                                         *)
(* Specifications:                                                         *)
(*   SpecTech  calls of get_technicals as the clock advances               *)
(*   Spec      requests to /analyze, from the request to the response      *)
(*   SpecKw    emergency_keyword_analysis applied to headlines             *)
(*   SpecInd   calculate_indicators applied to Close columns               *)
(*   SpecGem   requests to /analyze after any model discovery              *)
(*   SpecBrain requests to /analyze and constructions of GroqBrain         *)
(*   SpecNet   get_technicals with a Finnhub that never answers            *)
(*   SpecConc  calls of get_technicals interleaved                         *)
(***************************************************************************)
EXTENDS Integers, Sequences, FiniteSets, TLC

\* ------------------------------------------------------------------ bounds

\* Worker slots of the server (requests that may exist at once).
NumProcs == 2
\* Number of clock advances in one behaviour.
MaxTicks == 3
\* Words per headline in a request to /analyze.
MaxReqWords == 2
\* Words per headline handed directly to emergency_keyword_analysis.
MaxWords == 3
\* Models in the catalogue that discovery lists.
MaxModels == 2
\* Dollars by which a close differs from the close before.
MaxStep == 2

\* ------------------------------------------------------- program constants

\* main.py line 68
CACHE_DURATION == 900
\* main.py line 91: len(df) < 20
MinRows == 20

Procs == 1..NumProcs

\* The symbols requests ask for ('SPY' is the default of /analyze).
Symbols == {"SPY", "BTC-USD"}

\* The clock advances by one second or by one second less than the TTL, so
\* that both sides of the expiry boundary are reached.
TickSteps == {1, CACHE_DURATION - 1}

\* ------------------------------------------------------------- data frames

\* A pandas DataFrame of closes: its number of rows and its content.  The
\* content "bad" is a frame on which the indicator arithmetic raises (no
\* usable 'Close' column); "a" and "b" are two different usable contents.
NoneDF == [isNone |-> TRUE, rows |-> 0, closes |-> "-"]

EmptyDF == [isNone |-> FALSE, rows |-> 0, closes |-> "-"]

FrameRows == {MinRows - 1, MinRows}

Frames ==
    {EmptyDF} \cup
    {[isNone |-> FALSE, rows |-> n, closes |-> c] : n \in FrameRows, c \in {"a", "b", "bad"}}

\* The dict calculate_indicators returns, or None.  The indicator values are
\* a function of the frame; the snapshot is named by the frame it came from.
NoneSnap == [isNone |-> TRUE, rows |-> 0, closes |-> "-"]

\* Line 91 with <= for <.
calculate_indicators_OffByOne(frame) ==
    IF frame.rows = 0 \/ frame.rows + 1 < MinRows
    THEN NoneSnap
    ELSE IF frame.closes = "bad"
         THEN NoneSnap
         ELSE [isNone |-> FALSE, rows |-> frame.rows, closes |-> frame.closes]

\* main.py lines 90-138.  None for an empty or short frame (lines 91-93) and
\* when the arithmetic raises (lines 136-138); never raises itself.
calculate_indicators(frame) ==
    IF frame.rows = 0 \/ frame.rows < MinRows
    THEN NoneSnap
    ELSE IF frame.closes = "bad"
         THEN NoneSnap
         ELSE [isNone |-> FALSE, rows |-> frame.rows, closes |-> frame.closes]

\* What yf.download does: raise, or return a frame (empty on failure).
YahooOutcomes ==
    {[raised |-> TRUE, df |-> NoneDF]} \cup {[raised |-> FALSE, df |-> f] : f \in Frames}

\* Lines 149-155 without the try/except around the download.
yf_download_Unguarded(oc) ==
    [df |-> IF oc.raised THEN NoneDF ELSE oc.df, escaped |-> oc.raised]

\* main.py lines 149-155: the download inside try/except; df stays None when
\* it raises.  escaped: whether an exception leaves the block.
yf_download(oc) ==
    [df |-> IF oc.raised THEN NoneDF ELSE oc.df, escaped |-> FALSE]

\* What the Finnhub request does: raise (network, bad JSON), answer with a
\* status other than 'ok', or answer 'ok' with a list of closes.
FinnhubOutcomes ==
    {[kind |-> "raised", df |-> NoneDF], [kind |-> "no_data", df |-> NoneDF]} \cup
    {[kind |-> "ok", df |-> f] : f \in Frames}

\* main.py lines 72-88.  calls: outbound requests made.
fetch_finnhub_data(key, oc) ==
    IF ~key
    THEN [df |-> NoneDF, calls |-> 0, escaped |-> FALSE]
    ELSE IF oc.kind = "ok"
         THEN [df |-> oc.df, calls |-> 1, escaped |-> FALSE]
         ELSE [df |-> NoneDF, calls |-> 1, escaped |-> FALSE]

\* Line 157 without its test of df.empty.
NoneOrEmpty_NoneOnly(frame) == frame.isNone

\* main.py line 157: df is None or df.empty
NoneOrEmpty(frame) == frame.isNone \/ frame.rows = 0

\* ------------------------------------------------------------------- cache

\* A symbol without an entry in the TECHNICAL_CACHE dict.
NoEntry == [present |-> FALSE, data |-> NoneSnap, timestamp |-> 0]

\* Line 145 with the age taken in milliseconds.
CacheHit_Millis(cache, sym, t) ==
    /\ cache[sym].present
    /\ (t - cache[sym].timestamp) * 1000 < CACHE_DURATION

\* Line 145 with <= for <.
CacheHit_Inclusive(cache, sym, t) ==
    /\ cache[sym].present
    /\ (t - cache[sym].timestamp) <= CACHE_DURATION

\* main.py lines 143-145: symbol in TECHNICAL_CACHE and the entry is fresh.
CacheHit(cache, sym, t) ==
    /\ cache[sym].present
    /\ (t - cache[sym].timestamp) < CACHE_DURATION

\* Lines 162-163 without the test of result.
Store_Always(cache, sym, result, t) ==
    [cache EXCEPT ![sym] = [present |-> TRUE, data |-> result, timestamp |-> t]]

\* main.py lines 162-163: a result is stored under the time the call read;
\* None is not.
Store(cache, sym, result, t) ==
    IF ~result.isNone
    THEN [cache EXCEPT ![sym] = [present |-> TRUE, data |-> result, timestamp |-> t]]
    ELSE cache

\* ---------------------------------------------------- indicator arithmetic

\* The try block of calculate_indicators (lines 95-135) on a Close column of
\* whole-dollar closes.  A float is a whole number of 1/Scale; NaN is a value
\* of its own.  The quotient of a division is rounded to the nearest unit.
NaN == [nan |-> TRUE, v |-> 0]

Num(v) == [nan |-> FALSE, v |-> v]

\* Units per dollar in the moving averages of the closes (lines 103-106)
PriceScale == 100000
\* and in the averages of the gains and losses (lines 98-99).
RsiScale == 1000000

\* main.py line 98: alpha=1/14, min_periods=14
RsiPeriod == 14
\* main.py line 103
FastSpan == 12
\* main.py line 104
SlowSpan == 26
\* main.py line 106
SignalSpan == 9
\* main.py lines 108-109
Window == 20
\* main.py lines 110-111: the bands are 2 standard deviations from the mean.
BandWidth == 2

RoundDiv(a, b) == (a + b \div 2) \div b

\* main.py lines 95-96: delta.where(delta > 0, 0); the NaN of the first row
\* fails the test and becomes 0.
gain(Close) ==
    [i \in 1..Len(Close) |->
        IF i > 1 /\ Close[i] - Close[i - 1] > 0 THEN Close[i] - Close[i - 1] ELSE 0]

\* main.py line 97: -delta.where(delta < 0, 0)
loss(Close) ==
    [i \in 1..Len(Close) |->
        IF i > 1 /\ Close[i] - Close[i - 1] < 0 THEN -(Close[i] - Close[i - 1]) ELSE 0]

\* One row of x.ewm(alpha=num/den, adjust=False).mean(), in units of 1/scale:
\* y[t] = (1 - alpha) y[t-1] + alpha x[t].
EwmNext(y, x, num, den, scale) == RoundDiv((den - num) * y + num * x * scale, den)

\* The averages after t rows of the column.  signal is the average of the
\* MACD line k - d over the rows where that line is defined (from row
\* SlowSpan on: min_periods at line 104); it starts with the first of them.
NoRows == [t |-> 0, avg_gain |-> 0, avg_loss |-> 0, k |-> 0, d |-> 0, signal |-> 0]

\* main.py lines 98-106, one more row.
EwmRow(acc, column) ==
    LET t == acc.t + 1
        k == IF t = 1 THEN column[1] * PriceScale
             ELSE EwmNext(acc.k, column[t], 2, FastSpan + 1, PriceScale)
        d == IF t = 1 THEN column[1] * PriceScale
             ELSE EwmNext(acc.d, column[t], 2, SlowSpan + 1, PriceScale)
    IN  [t |-> t,
         avg_gain |-> IF t = 1 THEN gain(column)[1] * RsiScale
                      ELSE EwmNext(acc.avg_gain, gain(column)[t], 1, RsiPeriod, RsiScale),
         avg_loss |-> IF t = 1 THEN loss(column)[1] * RsiScale
                      ELSE EwmNext(acc.avg_loss, loss(column)[t], 1, RsiPeriod, RsiScale),
         k |-> k,
         d |-> d,
         signal |-> IF t < SlowSpan THEN 0
                    ELSE IF t = SlowSpan THEN k - d
                         ELSE EwmNext(acc.signal, k - d, 2, SignalSpan + 1, 1)]

\* The last row of an average over nobs observations: NaN below min_periods.
LastRow(y, nobs, min_periods) == IF nobs < min_periods THEN NaN ELSE Num(y)

\* Lines 100-101 and 113-114 with a zero average loss taken for an undefined
\* ratio.
current_rsi_ZeroLossIsNaN(avg_gain, avg_loss) ==
    IF avg_gain.nan \/ avg_loss.nan \/ avg_loss.v = 0
    THEN 5000
    ELSE LET total == avg_gain.v + avg_loss.v
             whole == (100 * avg_gain.v) \div total
             rest == 100 * avg_gain.v - whole * total
         IN  100 * whole + RoundDiv(100 * rest, total)

\* main.py lines 100-101, 113-114: rs = avg_gain / avg_loss and
\* RSI = 100 - 100 / (1 + rs), in hundredths.  Float division by zero does
\* not raise in pandas: 0/0 is NaN, and a positive gain over a zero loss is
\* infinite, which makes RSI 100.  Only NaN becomes 50.0.
current_rsi(avg_gain, avg_loss) ==
    IF avg_gain.nan \/ avg_loss.nan \/ (avg_gain.v = 0 /\ avg_loss.v = 0)
    THEN 5000
    ELSE LET total == avg_gain.v + avg_loss.v
             whole == (100 * avg_gain.v) \div total
             rest == 100 * avg_gain.v - whole * total
         IN  100 * whole + RoundDiv(100 * rest, total)

\* main.py lines 103-106, 116-120
macd_trend(acc) ==
    LET current_macd == LastRow(acc.k - acc.d, acc.t, SlowSpan)
        current_signal == LastRow(acc.signal, acc.t - SlowSpan + 1, SignalSpan)
    IN  IF current_macd.nan \/ current_signal.nan
        THEN "NEUTRAL"
        ELSE IF current_macd.v > current_signal.v THEN "BULLISH" ELSE "BEARISH"

\* The last Window closes, less the least of them.
LastWindow(Close) ==
    LET w == SubSeq(Close, Len(Close) - Window + 1, Len(Close))
        low == CHOOSE c \in {w[i] : i \in 1..Window} : \A i \in 1..Window : c <= w[i]
    IN  [i \in 1..Window |-> w[i] - low]

RECURSIVE Sum(_)
Sum(x) == IF x = <<>> THEN 0 ELSE Head(x) + Sum(Tail(x))

\* Window * (Window - 1) times the sample variance of w (rolling std, ddof=1).
VarNumerator(w) == Window * Sum([i \in 1..Window |-> w[i] * w[i]]) - Sum(w) * Sum(w)

\* Lines 110 and 127 with the band one standard deviation from the mean.
Beyond_OneStd(w, dist) ==
    /\ dist > 0
    /\ (Window - 1) * dist * dist > Window * VarNumerator(w)

\* main.py lines 108-111, 127-128: the close lies more than BandWidth
\* standard deviations from the mean, where dist is Window times its
\* distance from the mean on the side tested:
\* dist/Window > BandWidth * sqrt(VarNumerator/(Window (Window - 1))).
Beyond(w, dist) ==
    /\ dist > 0
    /\ (Window - 1) * dist * dist > BandWidth * BandWidth * Window * VarNumerator(w)

\* main.py lines 122-128
bb_status(Close) ==
    LET w == LastWindow(Close)
        close == w[Window]
    IN  IF Beyond(w, Sum(w) - Window * close)
        THEN "OVERSOLD (LOWER BAND)"
        ELSE IF Beyond(w, Window * close - Sum(w))
             THEN "OVEREXTENDED (UPPER BAND)"
             ELSE "NEUTRAL"

\* The dict of lines 130-135, rsi in hundredths, or None.
NoIndicators == [isNone |-> TRUE, rsi |-> 0, macd_trend |-> "-", bb_status |-> "-", price |-> 0]

\* main.py lines 91-93: the column is too short for indicators.
TooShort(column) == Len(column) = 0 \/ Len(column) < MinRows

\* main.py lines 113-135: the dict made of the last row's values.
Indicators(column, acc) ==
    [isNone |-> FALSE,
     rsi |-> current_rsi(LastRow(acc.avg_gain, acc.t, RsiPeriod),
                         LastRow(acc.avg_loss, acc.t, RsiPeriod)),
     macd_trend |-> macd_trend(acc),
     bb_status |-> bb_status(column),
     price |-> column[Len(column)]]

\* The Close columns the indicators are computed on: n closes from Base, the
\* steps d1 each until the last m steps, which are d2 each.
Base == 300

\* main.py line 79 (and period="3mo" at line 152): ninety days of closes.
Days == 90

Series(n, m, d1, d2) ==
    LET bend == IF n - 1 - m > 0 THEN n - 1 - m ELSE 0
    IN  [i \in 1..n |->
            Base + d1 * (IF i - 1 < bend THEN i - 1 ELSE bend)
                 + d2 * (IF i - 1 > bend THEN i - 1 - bend ELSE 0)]

SeriesLens ==
    {0, MinRows - 1, MinRows, SlowSpan - 1, SlowSpan, SlowSpan + SignalSpan - 2,
     SlowSpan + SignalSpan - 1, Days}

Bends == {3, Window}

Steps == (-MaxStep)..MaxStep

\* ---------------------------------------------------------- provider text

\* A provider's text is a sequence of tokens:
\*   "F"  a Markdown code-fence marker, with or without the json tag
\*   "{" "}"  braces
\*   "S"  the members of a complete Signal object ("action": ..., ...)
\*   "j"  some other well-formed member
\*   "x"  prose, not JSON
\*   " "  whitespace
Members == {"S", "j"}

\* Python None in place of a string.
NoneText == [isNone |-> TRUE, text |-> <<>>]

Str(t) == [isNone |-> FALSE, text |-> t]

\* The texts a provider may answer with.
Texts ==
    { <<>>,
      <<"x">>,
      <<"F", "F">>,
      <<"F", "{", "S", "}", "F">>,
      <<"x", "{", "j", " ", "}", "x">>,
      <<"{", "}">> }

\* Python truthiness of a string-or-None (lines 312, 317, 321).
Truthy(r) == ~r.isNone /\ r.text # <<>>

IsFence(tok) == tok = "F"

NotFence(tok) == ~IsFence(tok)

\* main.py line 188: re.sub removes the fence markers.  The whitespace the
\* pattern removes beside them never changes what follows.
StripFences(t) == SelectSeq(t, NotFence)

\* str.strip(): leading and trailing whitespace removed.
RECURSIVE LStrip(_)
LStrip(t) == IF t # <<>> /\ Head(t) = " " THEN LStrip(Tail(t)) ELSE t

RECURSIVE RStrip(_)
RStrip(t) ==
    IF t # <<>> /\ t[Len(t)] = " " THEN RStrip(SubSeq(t, 1, Len(t) - 1)) ELSE t

Strip(t) == LStrip(RStrip(t))

\* The dict json.loads returns, or None.
NoneJson == [isNone |-> TRUE, members |-> {}]

\* json.loads on a span "{" ... "}": an object when everything between the
\* braces is members and whitespace; raises otherwise.
JsonLoads(span) ==
    LET inner == SubSeq(span, 2, Len(span) - 1)
    IN  IF \A i \in 1..Len(inner) : inner[i] \in Members \cup {" "}
        THEN [isNone |-> FALSE, members |-> {inner[i] : i \in {k \in 1..Len(inner) : inner[k] \in Members}}]
        ELSE NoneJson

\* main.py lines 186-192.  re.search(r'\{.*\}', s, re.DOTALL) matches from
\* the first "{" to the last "}" when that "}" comes later; every exception
\* (also of a content that is no string) gives None.
clean_and_parse_json(content) ==
    IF content.isNone
    THEN NoneJson
    ELSE LET clean == StripFences(content.text)
             opens == {i \in 1..Len(clean) : clean[i] = "{"}
             closes == {i \in 1..Len(clean) : clean[i] = "}"}
         IN  IF opens = {} \/ closes = {}
             THEN NoneJson
             ELSE LET first == CHOOSE i \in opens : \A k \in opens : i <= k
                      last == CHOOSE i \in closes : \A k \in closes : k <= i
                  IN  IF first < last
                      THEN JsonLoads(SubSeq(clean, first, last))
                      ELSE NoneJson

\* Python truthiness of a dict-or-None (line 323: if result).
TruthyJson(r) == ~r.isNone /\ r.members # {}

\* -------------------------------------------------------- keyword fallback

\* Headlines are sequences of characters.
LowerChar(c) ==
    LET up == ("A" :> "a") @@ ("B" :> "b") @@ ("C" :> "c") @@ ("D" :> "d") @@ ("E" :> "e") @@ ("F" :> "f") @@ ("G" :> "g") @@ ("H" :> "h") @@ ("I" :> "i") @@ ("J" :> "j") @@ ("K" :> "k") @@ ("L" :> "l") @@ ("M" :> "m") @@ ("N" :> "n") @@ ("O" :> "o") @@ ("P" :> "p") @@ ("Q" :> "q") @@ ("R" :> "r") @@ ("S" :> "s") @@ ("T" :> "t") @@ ("U" :> "u") @@ ("V" :> "v") @@ ("W" :> "w") @@ ("X" :> "x") @@ ("Y" :> "y") @@ ("Z" :> "z")
    IN  IF c \in DOMAIN up THEN up[c] ELSE c

\* str.lower()
Lower(h) == [i \in 1..Len(h) |-> LowerChar(h[i])]

\* word in text (Python substring test)
Contains(text, word) ==
    \E i \in 1..(Len(text) - Len(word) + 1) : SubSeq(text, i, i + Len(word) - 1) = word

\* main.py line 173
bullish_words ==
    << <<"s","u","r","g","e">>,
       <<"j","u","m","p">>,
       <<"r","e","c","o","r","d">>,
       <<"h","i","g","h">>,
       <<"b","e","a","t">>,
       <<"b","u","y">>,
       <<"u","p">>,
       <<"b","u","l","l">>,
       <<"g","r","o","w","t","h">>,
       <<"s","t","r","o","n","g">>,
       <<"g","a","i","n">> >>

\* main.py line 174
bearish_words ==
    << <<"c","r","a","s","h">>,
       <<"d","r","o","p">>,
       <<"p","l","u","n","g","e">>,
       <<"l","o","w">>,
       <<"m","i","s","s">>,
       <<"s","e","l","l">>,
       <<"d","o","w","n">>,
       <<"b","e","a","r">>,
       <<"f","e","a","r">>,
       <<"w","e","a","k">>,
       <<"l","o","s","s">> >>

\* Lines 176-177 with headline_lower.count(word) summed in place of 1.
RECURSIVE Score_PerOccurrence(_, _)
Score_PerOccurrence(words, headline_lower) ==
    IF words = <<>>
    THEN 0
    ELSE Cardinality({i \in 1..(Len(headline_lower) - Len(Head(words)) + 1) :
                         SubSeq(headline_lower, i, i + Len(Head(words)) - 1) = Head(words)})
         + Score_PerOccurrence(Tail(words), headline_lower)

\* main.py lines 176-177: sum(1 for word in words if word in headline_lower)
Score(words, headline_lower) ==
    Cardinality({i \in DOMAIN words : Contains(headline_lower, words[i])})

\* main.py lines 169-184.  confidence is in tenths (5 is 0.5).
emergency_keyword_analysis(h) ==
    LET headline_lower == Lower(h)
        bull_score == Score(bullish_words, headline_lower)
        bear_score == Score(bearish_words, headline_lower)
    IN  IF bull_score > bear_score
        THEN [action |-> "BUY", confidence |-> 5, sentiment_score |-> 5,
              reasoning |-> "EMERGENCY BACKUP: Positive keywords detected."]
        ELSE IF bear_score > bull_score
             THEN [action |-> "SELL", confidence |-> 5, sentiment_score |-> -5,
                   reasoning |-> "EMERGENCY BACKUP: Negative keywords detected."]
             ELSE [action |-> "HOLD", confidence |-> 0, sentiment_score |-> 0,
                   reasoning |-> "EMERGENCY BACKUP: No clear sentiment found."]

\* Headlines: words joined by single spaces.
RECURSIVE Join(_)
Join(ws) ==
    IF ws = <<>> THEN <<>>
    ELSE IF Len(ws) = 1 THEN ws[1]
         ELSE ws[1] \o <<" ">> \o Join(Tail(ws))

HeadlinesOver(vocab, n) ==
    {Join(ws) : ws \in UNION {[1..k -> vocab] : k \in 0..n}}

\* Words of the headlines given to emergency_keyword_analysis directly:
\* a capitalised bullish word, two bearish words, and a neutral word that
\* has the bullish word "up" inside it.
KwVocab ==
    { <<"S","u","r","g","e">>, <<"c","r","a","s","h">>, <<"d","r","o","p">>,
      <<"s","u","p","p","l","y">> }

KwHeadlines == HeadlinesOver(KwVocab, MaxWords)

\* Words of the headlines of requests to /analyze.
ReqVocab == { <<"S","u","r","g","e">>, <<"c","r","a","s","h">> }

ReqHeadlines == HeadlinesOver(ReqVocab, MaxReqWords)

\* The symbol of the requests to /analyze: the default of line 274.
ReqSymbols == {"SPY"}

\* The mode of a request; anything but the two known modes is "other".
Modes == {"standard", "technical_only", "other"}

\* ---------------------------------------------------------------- providers

Providers == <<"groq", "huggingface", "gemini">>

\* What an adapter hands back: its return value, the outbound requests it
\* made, the 10-second sleeps it took, and whether an exception left it.
Returned(r, calls, waits) == [ret |-> r, calls |-> calls, waits |-> waits, escaped |-> FALSE]

\* What the Groq API does: raise, or complete with a content (possibly null).
GroqOutcomes ==
    {[raised |-> TRUE, content |-> NoneText]} \cup
    {[raised |-> FALSE, content |-> c] : c \in {NoneText} \cup {Str(t) : t \in Texts}}

\* main.py lines 196-211
ask_groq(client, oc) ==
    IF ~client
    THEN Returned(NoneText, 0, 0)
    ELSE IF oc.raised
         THEN Returned(NoneText, 1, 0)
         ELSE Returned(oc.content, 1, 0)

\* One HTTP response of the Hugging Face endpoint: the post raised; a
\* non-200 whose text mentions estimated_time ("loading"); another non-200
\* ("error"); a 200 whose JSON is no list with generated_text ("other");
\* a 200 with generated_text ("ok").
HFResponses ==
    {[kind |-> k, text |-> <<>>] : k \in {"raised", "loading", "error", "other"}} \cup
    {[kind |-> "ok", text |-> t] : t \in Texts}

\* The responses of one call of the adapter: a second one only after a first
\* "loading".
HFOutcomes ==
    {<<r>> : r \in {x \in HFResponses : x.kind # "loading"}} \cup
    {<<[kind |-> "loading", text |-> <<>>], r>> : r \in HFResponses}

\* main.py lines 235-239: response.json() and the shape test.  The body of
\* a non-200 is an error object, not a list.
HFBody(r) == IF r.kind = "ok" THEN Str(r.text) ELSE NoneText

\* main.py lines 213-243
ask_huggingface(key, oc) ==
    IF ~key
    THEN Returned(NoneText, 0, 0)
    ELSE IF oc[1].kind = "raised"
         THEN Returned(NoneText, 1, 0)
         ELSE IF oc[1].kind = "loading"
              THEN IF oc[2].kind = "raised"
                   THEN Returned(NoneText, 2, 1)
                   ELSE Returned(HFBody(oc[2]), 2, 1)
              ELSE IF oc[1].kind = "error"
                   THEN Returned(NoneText, 1, 0)
                   ELSE Returned(HFBody(oc[1]), 1, 0)

\* One generate_content call: it (or response.text) raised with 429 in the
\* message, raised otherwise, or gave a text.
GeminiResponses ==
    {[kind |-> k, text |-> <<>>] : k \in {"raised429", "raised"}} \cup
    {[kind |-> "ok", text |-> t] : t \in Texts}

GeminiOutcomes ==
    {<<r>> : r \in {x \in GeminiResponses : x.kind # "raised429"}} \cup
    {<<[kind |-> "raised429", text |-> <<>>], r>> : r \in GeminiResponses}

\* main.py lines 251 and 261: the fences replaced by nothing, then strip().
GeminiText(t) == Str(Strip(StripFences(t)))

\* The handle setup_gemini left in gemini_model, or None.  A model's name is
\* a sequence of characters.
NoModel == [isNone |-> TRUE, name |-> <<>>]

\* The entries genai.list_models() may give: a name and whether
\* 'generateContent' is among its supported_generation_methods.  One name has
\* "flash" in capitals, one model named flash does not generate content.
CatalogueModels ==
    { [name |-> <<"F","l","a","s","h">>, generateContent |-> TRUE],
      [name |-> <<"f","l","a","s","h","-","e">>, generateContent |-> FALSE],
      [name |-> <<"p","r","o">>, generateContent |-> TRUE],
      [name |-> <<"n","a","n","o">>, generateContent |-> TRUE] }

\* What discovery does at start: configure or list_models raises, or the
\* catalogue is listed.
DiscoveryOutcomes ==
    {[raised |-> TRUE, models |-> <<>>]} \cup
    {[raised |-> FALSE, models |-> ms] :
        ms \in UNION {[1..k -> CatalogueModels] : k \in 0..MaxModels}}

Supports(m) == m.generateContent

\* main.py line 52
AvailableNames(models) ==
    LET usable == SelectSeq(models, Supports)
    IN  [i \in 1..Len(usable) |-> usable[i].name]

\* next((n for n in names if word in n.lower()), default)
RECURSIVE NextWith(_, _, _)
NextWith(names, word, default) ==
    IF names = <<>>
    THEN default
    ELSE IF Contains(Lower(Head(names)), word)
         THEN Head(names)
         ELSE NextWith(Tail(names), word, default)

\* Lines 54-55 with the two priorities exchanged.
ChosenModelName_ProFirst(available_names) ==
    NextWith(available_names, <<"p","r","o">>,
             NextWith(available_names, <<"f","l","a","s","h">>, available_names[1]))

\* main.py lines 54-55.  The defaults of next() are evaluated first, so
\* available_names[0] raises IndexError on an empty list (see setup_gemini).
ChosenModelName(available_names) ==
    NextWith(available_names, <<"f","l","a","s","h">>,
             NextWith(available_names, <<"p","r","o">>, available_names[1]))

\* main.py lines 45-61: None without the key, and when anything in the try
\* block raises (discovery, or the IndexError of an empty list).
setup_gemini(key, oc) ==
    IF ~key
    THEN NoModel
    ELSE IF oc.raised
         THEN NoModel
         ELSE IF AvailableNames(oc.models) = <<>>
              THEN NoModel
              ELSE [isNone |-> FALSE, name |-> ChosenModelName(AvailableNames(oc.models))]

\* Lines 245-267 with a retry after any exception, 429 or not.
ask_gemini_RetryAlways(model, oc) ==
    IF model.isNone
    THEN Returned(NoneText, 0, 0)
    ELSE IF oc[1].kind = "ok"
         THEN Returned(GeminiText(oc[1].text), 1, 0)
         ELSE IF oc[1].kind = "raised429"
              THEN IF oc[2].kind = "ok"
                   THEN Returned(GeminiText(oc[2].text), 2, 1)
                   ELSE Returned(NoneText, 2, 1)
              ELSE Returned(NoneText, 2, 1)

\* main.py lines 245-267
ask_gemini(model, oc) ==
    IF model.isNone
    THEN Returned(NoneText, 0, 0)
    ELSE IF oc[1].kind = "ok"
         THEN Returned(GeminiText(oc[1].text), 1, 0)
         ELSE IF oc[1].kind = "raised429"
              THEN IF oc[2].kind = "ok"
                   THEN Returned(GeminiText(oc[2].text), 2, 1)
                   ELSE Returned(NoneText, 2, 1)
              ELSE Returned(NoneText, 1, 0)

\* ---------------------------------------------------------------- response

\* The body of the HTTP response of /analyze: the object a provider's text
\* parsed to ("model"), the keyword fallback's signal ("keyword") or the
\* fixed signal ("fixed").
NoResponse == [kind |-> "none", members |-> {}, signal |-> <<>>]

\* main.py lines 328-332: {**backup_result, "risk_level": "UNKNOWN"}
KeywordResponse(h) ==
    [kind |-> "keyword", members |-> {},
     signal |-> ("risk_level" :> "UNKNOWN") @@ emergency_keyword_analysis(h)]

\* main.py lines 334-337
FixedResponse ==
    [kind |-> "fixed", members |-> {},
     signal |-> [sentiment_score |-> 0, confidence |-> 0, action |-> "IGNORE",
                 reasoning |-> "SYSTEM FAILURE: All AI models offline.",
                 risk_level |-> "UNKNOWN"]]

\* Lines 321-337 with line 327 testing the headline alone, not the mode.
analyze_response_NoModeTest(raw, m, h) ==
    LET result == IF Truthy(raw) THEN clean_and_parse_json(raw) ELSE NoneJson
    IN  IF Truthy(raw) /\ TruthyJson(result)
        THEN [kind |-> "model", members |-> result.members, signal |-> <<>>]
        ELSE IF h # <<>>
             THEN KeywordResponse(h)
             ELSE FixedResponse

\* main.py lines 321-337: what analyze answers once the chain has left
\* raw_response.
analyze_response(raw, m, h) ==
    LET result == IF Truthy(raw) THEN clean_and_parse_json(raw) ELSE NoneJson
    IN  IF Truthy(raw) /\ TruthyJson(result)
        THEN [kind |-> "model", members |-> result.members, signal |-> <<>>]
        ELSE IF m = "standard" /\ h # <<>>
             THEN KeywordResponse(h)
             ELSE FixedResponse

\* -------------------------------------------------------------------- state

VARIABLES
    now,                  \* time.time(), in seconds
    ticks,                \* clock advances so far
    TECHNICAL_CACHE,      \* symbol -> entry
    groq_client,          \* whether the Groq client was built (line 30-32)
    HUGGINGFACE_API_KEY,  \* whether the key is set (line 37)
    GEMINI_API_KEY,       \* whether the key is set (line 42)
    list_models,          \* what discovery did when the process started
    gemini_model,         \* the handle setup_gemini returned, or None
    FINNHUB_API_KEY,      \* whether the key is set (line 66)
    brain,                \* whether a GroqBrain has been constructed (groq_service.py)
    pc,                   \* each request's position
    symbol, headline, mode,   \* the request's inputs
    current_time,         \* get_technicals: time read at line 142
    df,                   \* get_technicals: the frame
    srcLog,               \* get_technicals: the sources consulted, in order, and what each gave
    source_calls,         \* get_technicals: outbound data-source requests
    technicals,           \* what get_technicals returned
    raw_response,         \* analyze: the chain's text
    invoked,              \* analyze: the adapters called and what each returned
    response,             \* analyze: the body answered
    kw_headline,          \* a headline given to emergency_keyword_analysis
    kw_result,            \* and what it returned
    Close,                \* a Close column given to calculate_indicators,
    rows,                 \* the moving averages over its rows so far,
    snapshot              \* and what calculate_indicators returned

config == <<groq_client, HUGGINGFACE_API_KEY, GEMINI_API_KEY, list_models, gemini_model,
            FINNHUB_API_KEY, brain>>
clock == <<now, ticks>>
inputs == <<symbol, headline, mode>>
gt_locals == <<current_time, df, srcLog, source_calls, technicals>>
an_locals == <<raw_response, invoked, response>>
kw == <<kw_headline, kw_result>>
ind == <<Close, rows, snapshot>>

vars == <<now, ticks, TECHNICAL_CACHE, groq_client, HUGGINGFACE_API_KEY, GEMINI_API_KEY,
          list_models, gemini_model, FINNHUB_API_KEY, brain, pc, symbol, headline, mode, current_time, df, srcLog,
          source_calls, technicals, raw_response, invoked, response, kw_headline,
          kw_result, Close, rows, snapshot>>

\* Nothing computed yet.
NoSnapshot == [isNone |-> TRUE, rsi |-> -1, macd_trend |-> "-", bb_status |-> "-", price |-> 0]

NoKwResult == [action |-> "-", confidence |-> 0, sentiment_score |-> 0, reasoning |-> "-"]

\* A catalogue with one model, and the handle setup_gemini makes of it.
OneFlash == [raised |-> FALSE, models |-> << [name |-> <<"F","l","a","s","h">>, generateContent |-> TRUE] >>]

GeminiModel == [isNone |-> FALSE, name |-> <<"F","l","a","s","h">>]

\* No request in flight, nothing cached, the clock at its origin.
InitIdle ==
    /\ now = 0
    /\ ticks = 0
    /\ TECHNICAL_CACHE = [s \in Symbols |-> NoEntry]
    /\ pc = [p \in Procs |-> "idle"]
    /\ symbol = [p \in Procs |-> "SPY"]
    /\ headline = [p \in Procs |-> <<>>]
    /\ mode = [p \in Procs |-> "standard"]
    /\ current_time = [p \in Procs |-> 0]
    /\ df = [p \in Procs |-> NoneDF]
    /\ srcLog = [p \in Procs |-> <<>>]
    /\ source_calls = [p \in Procs |-> 0]
    /\ technicals = [p \in Procs |-> NoneSnap]
    /\ raw_response = [p \in Procs |-> NoneText]
    /\ invoked = [p \in Procs |-> <<>>]
    /\ response = [p \in Procs |-> NoResponse]
    /\ kw_headline = <<>>
    /\ kw_result = NoKwResult
    /\ brain = FALSE
    /\ Close = <<>>
    /\ rows = NoRows
    /\ snapshot = NoSnapshot

\* main.py lines 29-66: each key of the environment is set or not, and
\* setup_gemini has run (line 63).
Init ==
    /\ InitIdle
    /\ groq_client \in BOOLEAN
    /\ HUGGINGFACE_API_KEY \in BOOLEAN
    /\ GEMINI_API_KEY \in BOOLEAN
    /\ list_models = OneFlash
    /\ gemini_model = setup_gemini(GEMINI_API_KEY, list_models)
    /\ FINNHUB_API_KEY \in BOOLEAN

\* One request at a time, on the first worker slot.
MayStart(p) == p = 1 /\ \A q \in Procs : pc[q] = "idle"

\* The clock advances.
Tick ==
    /\ ticks < MaxTicks
    /\ \E d \in TickSteps : now' = now + d
    /\ ticks' = ticks + 1
    /\ UNCHANGED <<TECHNICAL_CACHE, config, pc, inputs, gt_locals, an_locals, kw, ind>>

\* ----------------------------------------------------------- get_technicals

\* Lines 140-147 behind a lock per symbol: the lookup waits while another
\* request is fetching the same symbol.
GT_Lookup_Locked(p) ==
    /\ pc[p] = "gt_lookup"
    /\ \A q \in Procs \ {p} :
          ~(symbol[q] = symbol[p] /\ pc[q] \in {"gt_yahoo", "gt_finnhub", "gt_calc"})
    /\ current_time' = [current_time EXCEPT ![p] = now]
    /\ IF CacheHit(TECHNICAL_CACHE, symbol[p], now)
       THEN /\ technicals' = [technicals EXCEPT ![p] = TECHNICAL_CACHE[symbol[p]].data]
            /\ pc' = [pc EXCEPT ![p] = "gt_ret"]
       ELSE /\ technicals' = technicals
            /\ pc' = [pc EXCEPT ![p] = "gt_yahoo"]
    /\ UNCHANGED <<clock, TECHNICAL_CACHE, config, inputs, df, srcLog, source_calls,
                   an_locals, kw, ind>>

\* main.py lines 140-147: the time is read and the cache looked up.
GT_Lookup(p) ==
    /\ pc[p] = "gt_lookup"
    /\ current_time' = [current_time EXCEPT ![p] = now]
    /\ IF CacheHit(TECHNICAL_CACHE, symbol[p], now)
       THEN /\ technicals' = [technicals EXCEPT ![p] = TECHNICAL_CACHE[symbol[p]].data]
            /\ pc' = [pc EXCEPT ![p] = "gt_ret"]
       ELSE /\ technicals' = technicals
            /\ pc' = [pc EXCEPT ![p] = "gt_yahoo"]
    /\ UNCHANGED <<clock, TECHNICAL_CACHE, config, inputs, df, srcLog, source_calls,
                   an_locals, kw, ind>>

\* main.py lines 149-157: Yahoo is asked.
GT_Yahoo(p) ==
    /\ pc[p] = "gt_yahoo"
    /\ \E oc \in YahooOutcomes :
         LET r == yf_download(oc)
         IN  /\ df' = [df EXCEPT ![p] = r.df]
             /\ srcLog' = [srcLog EXCEPT ![p] = Append(@, [source |-> "yahoo", df |-> r.df])]
             /\ pc' = [pc EXCEPT ![p] =
                          IF r.escaped THEN "error"
                          ELSE IF NoneOrEmpty(r.df) THEN "gt_finnhub" ELSE "gt_calc"]
    /\ source_calls' = [source_calls EXCEPT ![p] = @ + 1]
    /\ UNCHANGED <<clock, TECHNICAL_CACHE, config, inputs, current_time, technicals,
                   an_locals, kw, ind>>

\* main.py line 158: Finnhub is asked.
GT_Finnhub(p) ==
    /\ pc[p] = "gt_finnhub"
    /\ \E oc \in FinnhubOutcomes :
         LET r == fetch_finnhub_data(FINNHUB_API_KEY, oc)
         IN  /\ df' = [df EXCEPT ![p] = r.df]
             /\ srcLog' = [srcLog EXCEPT ![p] = Append(@, [source |-> "finnhub", df |-> r.df])]
             /\ source_calls' = [source_calls EXCEPT ![p] = @ + r.calls]
             /\ pc' = [pc EXCEPT ![p] = IF r.escaped THEN "error" ELSE "gt_calc"]
    /\ UNCHANGED <<clock, TECHNICAL_CACHE, config, inputs, current_time, technicals,
                   an_locals, kw, ind>>

\* main.py lines 160-165: the indicators are computed and, when there is a
\* result, stored under the time read at line 142.
GT_Calc(p) ==
    /\ pc[p] = "gt_calc"
    /\ LET result == IF ~NoneOrEmpty(df[p]) THEN calculate_indicators(df[p]) ELSE NoneSnap
       IN  /\ technicals' = [technicals EXCEPT ![p] = result]
           /\ TECHNICAL_CACHE' = Store(TECHNICAL_CACHE, symbol[p], result, current_time[p])
    /\ pc' = [pc EXCEPT ![p] = "gt_ret"]
    /\ UNCHANGED <<clock, config, inputs, current_time, df, srcLog, source_calls,
                   an_locals, kw, ind>>

\* The request's locals are dropped.
Idle(p) ==
    /\ pc' = [pc EXCEPT ![p] = "idle"]
    /\ symbol' = [symbol EXCEPT ![p] = "SPY"]
    /\ headline' = [headline EXCEPT ![p] = <<>>]
    /\ mode' = [mode EXCEPT ![p] = "standard"]
    /\ current_time' = [current_time EXCEPT ![p] = 0]
    /\ df' = [df EXCEPT ![p] = NoneDF]
    /\ srcLog' = [srcLog EXCEPT ![p] = <<>>]
    /\ source_calls' = [source_calls EXCEPT ![p] = 0]
    /\ technicals' = [technicals EXCEPT ![p] = NoneSnap]
    /\ raw_response' = [raw_response EXCEPT ![p] = NoneText]
    /\ invoked' = [invoked EXCEPT ![p] = <<>>]
    /\ response' = [response EXCEPT ![p] = NoResponse]

\* get_technicals(sym) is called on its own.
Call_get_technicals(p) ==
    /\ MayStart(p)
    /\ \E sym \in Symbols : symbol' = [symbol EXCEPT ![p] = sym]
    /\ pc' = [pc EXCEPT ![p] = "gt_lookup"]
    /\ UNCHANGED <<clock, TECHNICAL_CACHE, config, headline, mode, gt_locals, an_locals, kw, ind>>

\* and its caller has taken the value it returned.
GT_Return(p) ==
    /\ pc[p] = "gt_ret"
    /\ Idle(p)
    /\ UNCHANGED <<clock, TECHNICAL_CACHE, config, kw, ind>>

NextTech ==
    \/ Tick
    \/ \E p \in Procs :
         \/ Call_get_technicals(p)
         \/ GT_Lookup(p)
         \/ GT_Yahoo(p)
         \/ GT_Finnhub(p)
         \/ GT_Calc(p)
         \/ GT_Return(p)

\* get_technicals alone needs no provider.
InitTech ==
    /\ InitIdle
    /\ groq_client = FALSE
    /\ HUGGINGFACE_API_KEY = FALSE
    /\ GEMINI_API_KEY = FALSE
    /\ list_models = OneFlash
    /\ gemini_model = setup_gemini(GEMINI_API_KEY, list_models)
    /\ FINNHUB_API_KEY \in BOOLEAN

\* Calls of get_technicals, one after the other, as the clock advances.
SpecTech == InitTech /\ [][NextTech]_vars

\* ------------------------------------------------- a source that is silent

\* main.py line 81: requests.get(url) is given no timeout, and requests then
\* waits for the response without limit.
requests_get_timeout == [isNone |-> TRUE, seconds |-> 0]

\* The wait for a response that never comes: it ends with a Timeout exception
\* when a timeout was given, and never otherwise.
WaitEnds(timeout) == ~timeout.isNone

\* main.py lines 81 and 86-88: Finnhub accepts the request and never answers.
\* With a timeout the exception is caught and None returned; without one the
\* call does not return.
GT_FinnhubSilent(p) ==
    /\ pc[p] = "gt_finnhub"
    /\ FINNHUB_API_KEY
    /\ source_calls' = [source_calls EXCEPT ![p] = @ + 1]
    /\ IF WaitEnds(requests_get_timeout)
       THEN /\ df' = [df EXCEPT ![p] = NoneDF]
            /\ srcLog' = [srcLog EXCEPT ![p] = Append(@, [source |-> "finnhub", df |-> NoneDF])]
            /\ pc' = [pc EXCEPT ![p] = "gt_calc"]
       ELSE /\ UNCHANGED <<df, srcLog>>
            /\ pc' = [pc EXCEPT ![p] = "gt_blocked"]
    /\ UNCHANGED <<clock, TECHNICAL_CACHE, config, inputs, current_time, technicals,
                   an_locals, kw, ind>>

\* The steps of request p in get_technicals.
GT_Step(p) ==
    \/ GT_Lookup(p)
    \/ GT_Yahoo(p)
    \/ GT_Finnhub(p)
    \/ GT_FinnhubSilent(p)
    \/ GT_Calc(p)
    \/ GT_Return(p)

NextNet ==
    \E p \in Procs :
         \/ Call_get_technicals(p)
         \/ GT_Step(p)

\* Calls of get_technicals with sources that answer, raise or stay silent.
\* A worker that can take a step of its call takes one (the server runs each
\* request on its own thread), so a call stops only where the code waits.
\* A silent Yahoo is not a case of its own: the download is made with
\* yfinance's own default timeout and ends as a failed download.
SpecNet == InitTech /\ [][NextNet]_vars /\ \A p \in Procs : WF_vars(GT_Step(p))

\* ------------------------------------------------------------------ analyze

\* main.py lines 272-279: the request is read and get_technicals called.
AnalyzeStart(p) ==
    /\ MayStart(p)
    /\ \E h \in ReqHeadlines, sym \in ReqSymbols, m \in Modes :
         /\ headline' = [headline EXCEPT ![p] = h]
         /\ symbol' = [symbol EXCEPT ![p] = sym]
         /\ mode' = [mode EXCEPT ![p] = m]
    /\ pc' = [pc EXCEPT ![p] = "gt_lookup"]
    /\ UNCHANGED <<clock, TECHNICAL_CACHE, config, gt_locals, an_locals, kw, ind>>

\* main.py lines 281-306: the market context of the prompt and its template.
Prompt(p) ==
    [template |-> IF mode[p] = "technical_only" THEN "technical_only" ELSE "standard",
     context |-> IF technicals[p].isNone THEN "MARKET DATA: UNAVAILABLE" ELSE "LIVE MARKET DATA",
     snapshot |-> technicals[p],
     headline |-> IF mode[p] = "technical_only" THEN <<>> ELSE headline[p]]

\* What is kept of one call of an adapter: the market context of the prompt
\* it was given, what it returned, the outbound requests it made, the
\* 10-second sleeps it took, and whether the first response it got was one
\* that the adapter answers with a retry (a non-200 that mentions
\* estimated_time; an error with 429 in its message).
Invocation(name, prompt, r, retry) ==
    [provider |-> name, context |-> prompt.context, ret |-> r.ret,
     calls |-> r.calls, waits |-> r.waits, retry |-> r.calls > 0 /\ retry]

\* Lines 312 and 317 without their tests: the next adapter is called
\* whatever the one before returned.
Called_NoShortCircuit(p, name, r, retry, ifFalsy) ==
    /\ raw_response' = [raw_response EXCEPT ![p] = r.ret]
    /\ invoked' = [invoked EXCEPT ![p] = Append(@, Invocation(name, Prompt(p), r, retry))]
    /\ pc' = [pc EXCEPT ![p] = IF r.escaped THEN "error" ELSE ifFalsy]
    /\ UNCHANGED <<clock, TECHNICAL_CACHE, config, inputs, gt_locals, response, kw, ind>>

\* One adapter has been called: its return value is raw_response.
Called(p, name, r, retry, ifFalsy) ==
    /\ raw_response' = [raw_response EXCEPT ![p] = r.ret]
    /\ invoked' = [invoked EXCEPT ![p] = Append(@, Invocation(name, Prompt(p), r, retry))]
    /\ pc' = [pc EXCEPT ![p] =
                 IF r.escaped THEN "error"
                 ELSE IF Truthy(r.ret) THEN "respond" ELSE ifFalsy]
    /\ UNCHANGED <<clock, TECHNICAL_CACHE, config, inputs, gt_locals, response, kw, ind>>

\* Lines 281-309 with a return before the chain when there is no snapshot.
AskGroq_NeedsData(p) ==
    /\ pc[p] = "gt_ret"
    /\ IF technicals[p].isNone
       THEN /\ pc' = [pc EXCEPT ![p] = "respond"]
            /\ UNCHANGED <<clock, TECHNICAL_CACHE, config, inputs, gt_locals, an_locals,
                           kw, ind>>
       ELSE \E oc \in GroqOutcomes :
               Called(p, "groq", ask_groq(groq_client, oc), FALSE, "hf")

\* main.py lines 281-309: get_technicals has returned, the prompt is built
\* and Groq is asked.
AskGroq(p) ==
    /\ pc[p] = "gt_ret"
    /\ \E oc \in GroqOutcomes : Called(p, "groq", ask_groq(groq_client, oc), FALSE, "hf")

\* main.py lines 312-314: Hugging Face is asked when raw_response is falsy.
AskHuggingFace(p) ==
    /\ pc[p] = "hf"
    /\ \E oc \in HFOutcomes :
         Called(p, "huggingface", ask_huggingface(HUGGINGFACE_API_KEY, oc),
                oc[1].kind = "loading", "gemini")

\* main.py lines 317-319: Gemini is asked when raw_response is still falsy.
AskGemini(p) ==
    /\ pc[p] = "gemini"
    /\ \E oc \in GeminiOutcomes :
         Called(p, "gemini", ask_gemini(gemini_model, oc), oc[1].kind = "raised429", "respond")

\* main.py lines 321-337: the body is answered.
Respond(p) ==
    /\ pc[p] = "respond"
    /\ response' = [response EXCEPT ![p] = analyze_response(raw_response[p], mode[p], headline[p])]
    /\ pc' = [pc EXCEPT ![p] = "done"]
    /\ UNCHANGED <<clock, TECHNICAL_CACHE, config, inputs, gt_locals, raw_response, invoked, kw, ind>>

\* The response has been sent (or the request has died of an exception).
Finish(p) ==
    /\ pc[p] \in {"done", "error"}
    /\ Idle(p)
    /\ UNCHANGED <<clock, TECHNICAL_CACHE, config, kw, ind>>

Next ==
    \E p \in Procs :
         \/ AnalyzeStart(p)
         \/ GT_Lookup(p)
         \/ GT_Yahoo(p)
         \/ GT_Finnhub(p)
         \/ GT_Calc(p)
         \/ AskGroq(p)
         \/ AskHuggingFace(p)
         \/ AskGemini(p)
         \/ Respond(p)
         \/ Finish(p)

\* Requests to /analyze, one after the other, all within the same second
\* (the clock matters to get_technicals alone: see SpecTech).
Spec == Init /\ [][Next]_vars

\* ------------------------------------------- emergency_keyword_analysis alone

InitKw ==
    /\ InitTech
    /\ FINNHUB_API_KEY = FALSE

\* A headline is chosen
KwChoose ==
    /\ kw_headline = <<>>
    /\ kw_result = NoKwResult
    /\ kw_headline' \in KwHeadlines \ {<<>>}
    /\ UNCHANGED <<clock, TECHNICAL_CACHE, config, pc, inputs, gt_locals, an_locals, kw_result, ind>>

\* and emergency_keyword_analysis applied to it.
KwApply ==
    /\ kw_result = NoKwResult
    /\ kw_result' = emergency_keyword_analysis(kw_headline)
    /\ UNCHANGED <<clock, TECHNICAL_CACHE, config, pc, inputs, gt_locals, an_locals, kw_headline, ind>>

NextKw == KwChoose \/ KwApply

SpecKw == InitKw /\ [][NextKw]_vars

\* --------------------------------------------------- the indicators alone

\* A Close column is chosen
IndChoose ==
    /\ Close = <<>>
    /\ snapshot = NoSnapshot
    /\ \E n \in SeriesLens \ {0}, m \in Bends, d1 \in Steps, d2 \in Steps :
          Close' = Series(n, m, d1, d2)
    /\ UNCHANGED <<clock, TECHNICAL_CACHE, config, pc, inputs, gt_locals, an_locals, kw,
                   rows, snapshot>>

\* main.py lines 91-93: None at once for a column too short (an empty one
\* too).
IndShort ==
    /\ snapshot = NoSnapshot
    /\ TooShort(Close)
    /\ snapshot' = NoIndicators
    /\ UNCHANGED <<clock, TECHNICAL_CACHE, config, pc, inputs, gt_locals, an_locals, kw,
                   Close, rows>>

\* main.py lines 95-106: the moving averages take in one more row.
IndRow ==
    /\ snapshot = NoSnapshot
    /\ ~TooShort(Close)
    /\ rows.t < Len(Close)
    /\ rows' = EwmRow(rows, Close)
    /\ UNCHANGED <<clock, TECHNICAL_CACHE, config, pc, inputs, gt_locals, an_locals, kw,
                   Close, snapshot>>

\* main.py lines 108-135: the bands and the dict of the last row's values.
IndApply ==
    /\ snapshot = NoSnapshot
    /\ ~TooShort(Close)
    /\ rows.t = Len(Close)
    /\ snapshot' = Indicators(Close, rows)
    /\ UNCHANGED <<clock, TECHNICAL_CACHE, config, pc, inputs, gt_locals, an_locals, kw,
                   Close, rows>>

NextInd == IndChoose \/ IndShort \/ IndRow \/ IndApply

SpecInd == InitKw /\ [][NextInd]_vars

\* ---------------------------------------------------------------- GroqBrain

\* groq_service.py lines 15-21: the constructor raises ValueError when
\* GROQ_API_KEY is not set (the key main.py reads at line 29), and builds the
\* client otherwise.
GroqBrain_init(key) ==
    IF ~key
    THEN [constructed |-> FALSE, escaped |-> TRUE]
    ELSE [constructed |-> TRUE, escaped |-> FALSE]

\* GroqBrain() is constructed on a worker.
NewGroqBrain(p) ==
    /\ MayStart(p)
    /\ ~brain
    /\ LET r == GroqBrain_init(groq_client)
       IN  /\ brain' = r.constructed
           /\ pc' = [pc EXCEPT ![p] = IF r.escaped THEN "error" ELSE "idle"]
    /\ UNCHANGED <<clock, TECHNICAL_CACHE, groq_client, HUGGINGFACE_API_KEY, GEMINI_API_KEY,
                   list_models, gemini_model, FINNHUB_API_KEY, inputs, gt_locals, an_locals, kw, ind>>

NextBrain ==
    \/ Next
    \/ \E p \in Procs : NewGroqBrain(p)

\* Requests to /analyze and constructions of GroqBrain, under every set of
\* keys.
SpecBrain == Init /\ [][NextBrain]_vars

\* ------------------------------------------------------- discovery at start

\* The process has started with any key and any outcome of discovery; the
\* other providers and Finnhub are without keys.
InitGem ==
    /\ InitIdle
    /\ groq_client = FALSE
    /\ HUGGINGFACE_API_KEY = FALSE
    /\ FINNHUB_API_KEY = FALSE
    /\ GEMINI_API_KEY \in BOOLEAN
    /\ list_models \in DiscoveryOutcomes
    /\ gemini_model = setup_gemini(GEMINI_API_KEY, list_models)

\* Requests to /analyze of a process started with any catalogue.
SpecGem == InitGem /\ [][Next]_vars

\* ------------------------------------------------------ requests together

\* main.py lines 279 and 349: app.run serves each request on a thread of its
\* own, so a request arrives on any free worker slot whatever the others
\* are doing.  All of them ask for the default symbol.
Arrive(p) ==
    /\ pc[p] = "idle"
    /\ \E sym \in ReqSymbols : symbol' = [symbol EXCEPT ![p] = sym]
    /\ pc' = [pc EXCEPT ![p] = "gt_lookup"]
    /\ UNCHANGED <<clock, TECHNICAL_CACHE, config, headline, mode, gt_locals, an_locals, kw, ind>>

NextConc ==
    \/ Tick
    \/ \E p \in Procs :
         \/ Arrive(p)
         \/ GT_Lookup(p)
         \/ GT_Yahoo(p)
         \/ GT_Finnhub(p)
         \/ GT_Calc(p)
         \/ GT_Return(p)

\* Calls of get_technicals for one symbol, interleaved at the places where a
\* call leaves the interpreter (the clock, the cache, the two sources).
SpecConc == InitTech /\ [][NextConc]_vars

\* ------------------------------------------------------------------- claims

\* The lookup of request p: the step that leaves line 142-147.
LookupStep(p) == pc[p] = "gt_lookup" /\ pc'[p] # "gt_lookup"

\* C1: once a snapshot is stored for a symbol at time t, every later call of
\* get_technicals for that symbol at a time before t + 900 returns that very
\* snapshot, consults no data source (its count of outbound data-source
\* requests stays 0), computes nothing and leaves the cache as it is.
C1_CacheServesWithoutSourceCall ==
    [][\A p \in Procs :
         LET e == TECHNICAL_CACHE[symbol[p]]
         IN  (LookupStep(p) /\ e.present /\ e.timestamp <= now
                /\ now < e.timestamp + CACHE_DURATION)
             => /\ pc'[p] = "gt_ret"
                /\ technicals'[p] = e.data
                /\ srcLog'[p] = <<>>
                /\ source_calls'[p] = 0
                /\ TECHNICAL_CACHE' = TECHNICAL_CACHE]_vars

\* C1's case: a call made 899 seconds after the store has returned the stored
\* snapshot without consulting a source.
C1_Witness ==
    \E p \in Procs :
        /\ pc[p] = "gt_ret"
        /\ srcLog[p] = <<>>
        /\ TECHNICAL_CACHE[symbol[p]].present
        /\ current_time[p] = TECHNICAL_CACHE[symbol[p]].timestamp + CACHE_DURATION - 1
        /\ technicals[p] = TECHNICAL_CACHE[symbol[p]].data

\* The frame of the first source of the log that gave a frame with rows.
FirstNonEmpty(log) ==
    IF \E i \in DOMAIN log : ~log[i].df.isNone /\ log[i].df.rows > 0
    THEN log[CHOOSE i \in DOMAIN log :
                 /\ ~log[i].df.isNone /\ log[i].df.rows > 0
                 /\ \A k \in 1..(i - 1) : log[k].df.isNone \/ log[k].df.rows = 0].df
    ELSE NoneDF

\* The frame of the first source of the log that gave at least 20 closes.
FirstSufficient(log) ==
    IF \E i \in DOMAIN log : ~log[i].df.isNone /\ log[i].df.rows >= MinRows
    THEN log[CHOOSE i \in DOMAIN log :
                 /\ ~log[i].df.isNone /\ log[i].df.rows >= MinRows
                 /\ \A k \in 1..(i - 1) : log[k].df.isNone \/ log[k].df.rows < MinRows].df
    ELSE NoneDF

\* A call that missed the cache and has consulted its sources.
Fetched(p) == pc[p] \in {"gt_calc", "gt_ret"} /\ srcLog[p] # <<>>

\* C8 as stated: on a miss Yahoo is first and Finnhub second, Finnhub is
\* consulted whenever Yahoo gave fewer than 20 closes, the indicators come
\* from the first source with at least 20 closes, and None is returned only if
\* no source gave at least 20 closes.
C8_Original ==
    \A p \in Procs :
        /\ Fetched(p) =>
              /\ srcLog[p][1].source = "yahoo"
              /\ (srcLog[p][1].df.isNone \/ srcLog[p][1].df.rows < MinRows)
                    => (Len(srcLog[p]) = 2 /\ srcLog[p][2].source = "finnhub")
        /\ (pc[p] = "gt_ret" /\ srcLog[p] # <<>> /\ technicals[p].isNone)
              => FirstSufficient(srcLog[p]).isNone

\* C8 amended: on a miss Yahoo is first and Finnhub second; Finnhub is
\* consulted exactly when Yahoo raised or gave an empty frame; the indicators
\* are computed from the first source that gave a non-empty frame, and
\* get_technicals returns None when that frame has fewer than 20 closes or
\* the computation fails (Finnhub is not consulted then), and when no source
\* gave a non-empty frame.
C8_Amended ==
    \A p \in Procs :
        /\ Fetched(p) =>
              /\ srcLog[p][1].source = "yahoo"
              /\ Len(srcLog[p]) <= 2
              /\ Len(srcLog[p]) = 2 <=>
                    (srcLog[p][1].df.isNone \/ srcLog[p][1].df.rows = 0)
              /\ Len(srcLog[p]) = 2 => srcLog[p][2].source = "finnhub"
        /\ (pc[p] = "gt_ret" /\ srcLog[p] # <<>>) =>
              LET f == FirstNonEmpty(srcLog[p])
              IN  /\ (f.isNone \/ f.rows < MinRows) => technicals[p].isNone
                  /\ ~technicals[p].isNone =>
                        (technicals[p].rows = f.rows /\ technicals[p].closes = f.closes)

\* C8's case: Yahoo gave a frame of 19 rows, Finnhub was not consulted and
\* get_technicals returned None.
C8_Witness ==
    \E p \in Procs :
        /\ pc[p] = "gt_ret"
        /\ Len(srcLog[p]) = 1
        /\ srcLog[p][1].df.rows = MinRows - 1
        /\ technicals[p].isNone

\* C9: a failing call of get_technicals leaves TECHNICAL_CACHE as it was and
\* stores no negative result (the cache changes only by the store of a
\* result that is not None, under the time the call read), so the symbol has
\* no fresh entry after the failure and the next call consults the sources.
C9_FailureNotCached ==
    /\ [][\A p \in Procs :
            (pc[p] = "gt_calc" /\ pc'[p] = "gt_ret" /\ technicals'[p].isNone)
            => TECHNICAL_CACHE' = TECHNICAL_CACHE]_vars
    /\ [][TECHNICAL_CACHE' # TECHNICAL_CACHE =>
            \E p \in Procs :
                /\ pc[p] = "gt_calc"
                /\ ~technicals'[p].isNone
                /\ TECHNICAL_CACHE' =
                      [TECHNICAL_CACHE EXCEPT ![symbol[p]] =
                          [present |-> TRUE, data |-> technicals'[p],
                           timestamp |-> current_time[p]]]]_vars
    /\ [](\A sym \in Symbols :
            TECHNICAL_CACHE[sym].present => ~TECHNICAL_CACHE[sym].data.isNone)
    /\ [](\A p \in Procs :
            (pc[p] = "gt_ret" /\ technicals[p].isNone) =>
                \/ ~TECHNICAL_CACHE[symbol[p]].present
                \/ now - TECHNICAL_CACHE[symbol[p]].timestamp >= CACHE_DURATION)
    /\ [][\A p \in Procs :
            (LookupStep(p) /\ ~TECHNICAL_CACHE[symbol[p]].present) => pc'[p] = "gt_yahoo"]_vars

\* C9's case: both sources were consulted, the call returned None, and the
\* expired entry of the symbol is still the one stored before.
C9_Witness ==
    \E p \in Procs :
        /\ pc[p] = "gt_ret"
        /\ technicals[p].isNone
        /\ Len(srcLog[p]) = 2
        /\ TECHNICAL_CACHE[symbol[p]].present
        /\ TECHNICAL_CACHE[symbol[p]].timestamp < current_time[p]

\* C10: an entry with timestamp t serves the lookups at times in [t, t+900)
\* and no lookup at a time >= t+900, which refetches; a lookup never changes
\* an entry (no sliding expiry); and a refetch returns what it has just
\* stored or None, never the expired snapshot.
C10_ExactTTL ==
    /\ [][\A p \in Procs :
            LET e == TECHNICAL_CACHE[symbol[p]]
            IN  LookupStep(p) =>
                  /\ TECHNICAL_CACHE' = TECHNICAL_CACHE
                  /\ (e.present /\ e.timestamp <= now /\ now < e.timestamp + CACHE_DURATION)
                        => (pc'[p] = "gt_ret" /\ technicals'[p] = e.data)
                  /\ (e.present /\ now >= e.timestamp + CACHE_DURATION)
                        => (pc'[p] = "gt_yahoo" /\ technicals'[p].isNone)]_vars
    /\ [](\A p \in Procs :
            (pc[p] = "gt_ret" /\ srcLog[p] # <<>>) =>
                \/ technicals[p].isNone
                \/ TECHNICAL_CACHE[symbol[p]] =
                      [present |-> TRUE, data |-> technicals[p],
                       timestamp |-> current_time[p]])
    /\ [](\A p \in Procs :
            (pc[p] = "gt_ret" /\ srcLog[p] # <<>>
               /\ (\A i \in DOMAIN srcLog[p] :
                      srcLog[p][i].df.isNone \/ srcLog[p][i].df.rows = 0))
            => technicals[p].isNone)

\* C10's case: a lookup exactly 900 seconds after the store has not been
\* served and the call is about to ask Yahoo.
C10_Witness ==
    \E p \in Procs :
        /\ pc[p] = "gt_yahoo"
        /\ TECHNICAL_CACHE[symbol[p]].present
        /\ current_time[p] = TECHNICAL_CACHE[symbol[p]].timestamp + CACHE_DURATION

\* A string-or-None that is None or empty.
Empty(r) == r.isNone \/ r.text = <<>>

\* A text from which a non-empty JSON object is extracted.
Usable(r) ==
    /\ ~Empty(r)
    /\ ~clean_and_parse_json(r).isNone
    /\ clean_and_parse_json(r).members # {}

\* The chain of request p has ended.
ChainEnded(p) == pc[p] \in {"respond", "done"}

\* C2: the adapters are called in the order Groq, Hugging Face, Gemini, each
\* at most once, and one is called only if every one before it returned None
\* or an empty text; the chain ends at the first non-empty return (or after
\* Gemini); when the adapter that ended it gave a text with a JSON object,
\* the response is that object.
C2_FallbackOrder ==
    \A p \in Procs :
        LET inv == invoked[p]
        IN  /\ Len(inv) <= Len(Providers)
            /\ \A i \in DOMAIN inv : inv[i].provider = Providers[i]
            /\ \A i \in DOMAIN inv : \A k \in 1..(i - 1) : Empty(inv[k].ret)
            /\ ChainEnded(p) =>
                  /\ inv # <<>>
                  /\ Len(inv) < Len(Providers) => ~Empty(inv[Len(inv)].ret)
            /\ (pc[p] = "done" /\ Usable(inv[Len(inv)].ret)) =>
                  response[p] =
                     [kind |-> "model",
                      members |-> clean_and_parse_json(inv[Len(inv)].ret).members,
                      signal |-> <<>>]

\* C2's case: Groq failed, Hugging Face gave a JSON object, Gemini was not
\* called and the response is that object.
C2_Witness ==
    \E p \in Procs :
        /\ pc[p] = "done"
        /\ Len(invoked[p]) = 2
        /\ invoked[p][1].ret.isNone
        /\ response[p].kind = "model"
        /\ response[p].members = {"S"}

\* C3 as stated: when an adapter before the last returns a non-empty text
\* from which no JSON object can be extracted, the next adapter is called.
C3_MalformedAdvances ==
    \A p \in Procs :
        ChainEnded(p) =>
            \A i \in DOMAIN invoked[p] :
                (i < Len(Providers) /\ ~Empty(invoked[p][i].ret)
                   /\ clean_and_parse_json(invoked[p][i].ret).isNone)
                => (Len(invoked[p]) > i /\ invoked[p][i + 1].provider = Providers[i + 1])

\* Every data source and every provider has failed and the response is out:
\* both sources were consulted and gave no frame or an empty one, and the
\* three adapters returned None.
TotalFailure(p) ==
    /\ pc[p] = "done"
    /\ Len(srcLog[p]) = 2
    /\ \A i \in DOMAIN srcLog[p] : srcLog[p][i].df.isNone \/ srcLog[p][i].df.rows = 0
    /\ technicals[p].isNone
    /\ Len(invoked[p]) = Len(Providers)
    /\ \A i \in DOMAIN invoked[p] : invoked[p][i].ret.isNone

Surge == <<"s", "u", "r", "g", "e">>

\* The listed words present in a headline.
Present(words, h) == {w \in {words[i] : i \in DOMAIN words} : Contains(Lower(h), w)}

IsSignal(sig, action, score, confidence) ==
    /\ sig.action = action
    /\ sig.sentiment_score = score
    /\ sig.confidence = confidence

\* C4 as stated: on total failure, standard mode with any headline that
\* contains "surge" answers BUY, 5, 0.5, UNKNOWN; technical_only answers
\* IGNORE, UNKNOWN.
C4_Original ==
    \A p \in Procs :
        TotalFailure(p) =>
            /\ (mode[p] = "standard" /\ Contains(Lower(headline[p]), Surge)) =>
                  /\ IsSignal(response[p].signal, "BUY", 5, 5)
                  /\ response[p].signal.risk_level = "UNKNOWN"
            /\ mode[p] = "technical_only" =>
                  /\ response[p].signal.action = "IGNORE"
                  /\ response[p].signal.risk_level = "UNKNOWN"

\* C4 amended: on total failure, standard mode with a headline that contains
\* "surge" and in which more bullish than bearish listed words occur answers
\* BUY, 5, 0.5, UNKNOWN; technical_only (any headline) answers IGNORE, UNKNOWN.
C4_Amended ==
    \A p \in Procs :
        TotalFailure(p) =>
            /\ (/\ mode[p] = "standard"
                /\ Contains(Lower(headline[p]), Surge)
                /\ Cardinality(Present(bullish_words, headline[p]))
                      > Cardinality(Present(bearish_words, headline[p]))) =>
                  /\ IsSignal(response[p].signal, "BUY", 5, 5)
                  /\ response[p].signal.risk_level = "UNKNOWN"
            /\ mode[p] = "technical_only" =>
                  /\ response[p].signal.action = "IGNORE"
                  /\ response[p].signal.risk_level = "UNKNOWN"

\* C4's case: total failure, standard mode, the headline "Surge": BUY.
C4_Witness ==
    \E p \in Procs :
        /\ TotalFailure(p)
        /\ mode[p] = "standard"
        /\ headline[p] = <<"S", "u", "r", "g", "e">>
        /\ response[p].signal.action = "BUY"
        /\ response[p].signal.risk_level = "UNKNOWN"

\* C5 as stated: emergency_keyword_analysis is invoked only if all three
\* adapters were called and each returned nothing (None; an empty text is
\* let pass here), and only in standard mode with a non-empty headline;
\* every other response without a model's object is the fixed signal.
C5_KeywordOnlyAfterAllThree ==
    \A p \in Procs :
        pc[p] = "done" =>
            /\ response[p].kind = "keyword" =>
                  /\ Len(invoked[p]) = Len(Providers)
                  /\ \A i \in DOMAIN invoked[p] : Empty(invoked[p][i].ret)
                  /\ mode[p] = "standard"
                  /\ headline[p] # <<>>
            /\ (response[p].kind # "model" /\ ~(mode[p] = "standard" /\ headline[p] # <<>>)) =>
                  response[p] = FixedResponse

SignalFields == {"sentiment_score", "confidence", "risk_level", "action", "reasoning"}

\* C7: whatever the two sources and the three providers do (raise, give
\* nothing, give something malformed, succeed), no exception leaves analyze,
\* the request can always take its next step until the chain has ended and
\* the body is computed (line 321 on, which calls nothing outside), and
\* when no provider text is usable the body is a Signal with exactly the
\* five fields, sentiment_score in [-10, 10], confidence in [0, 1] (tenths),
\* risk_level UNKNOWN and action one of BUY, SELL, HOLD, IGNORE.
C7_AlwaysAnswers ==
    \A p \in Procs :
        /\ pc[p] # "error"
        /\ pc[p] \in {"idle", "gt_lookup", "gt_yahoo", "gt_finnhub", "gt_calc", "gt_ret",
                      "hf", "gemini", "respond", "done"}
        /\ pc[p] \in {"gt_lookup", "gt_yahoo", "gt_finnhub", "gt_calc", "gt_ret", "hf", "gemini"}
              => ENABLED (\/ GT_Lookup(p) \/ GT_Yahoo(p) \/ GT_Finnhub(p) \/ GT_Calc(p)
                          \/ AskGroq(p) \/ AskHuggingFace(p) \/ AskGemini(p))
        /\ pc[p] = "done" =>
              /\ response[p].kind \in {"model", "keyword", "fixed"}
              /\ (\A i \in DOMAIN invoked[p] : ~Usable(invoked[p][i].ret)) =>
                    /\ response[p].kind \in {"keyword", "fixed"}
                    /\ DOMAIN response[p].signal = SignalFields
                    /\ response[p].signal.sentiment_score \in -10..10
                    /\ response[p].signal.confidence \in 0..10
                    /\ response[p].signal.risk_level = "UNKNOWN"
                    /\ response[p].signal.action \in {"BUY", "SELL", "HOLD", "IGNORE"}
                    /\ response[p].signal.reasoning # ""

\* C7's case: Yahoo raised, Finnhub gave nothing, Groq gave prose and the
\* body is a degraded Signal.
C7_Witness ==
    \E p \in Procs :
        /\ pc[p] = "done"
        /\ Len(srcLog[p]) = 2
        /\ srcLog[p][1].df.isNone
        /\ technicals[p].isNone
        /\ Len(invoked[p]) = 1
        /\ invoked[p][1].provider = "groq"
        /\ invoked[p][1].ret = Str(<<"x">>)
        /\ response[p].kind = "keyword"
        /\ response[p].signal.risk_level = "UNKNOWN"

\* Occurrences of the listed words in a text, each occurrence counted.
RECURSIVE Occurrences(_, _)
Occurrences(words, text) ==
    IF words = <<>>
    THEN 0
    ELSE Cardinality({i \in 1..(Len(text) - Len(Head(words)) + 1) :
                         SubSeq(text, i, i + Len(Head(words)) - 1) = Head(words)})
         + Occurrences(Tail(words), text)

\* The decision on two counts.
Decides(result, bull, bear) ==
    /\ bull > bear => IsSignal(result, "BUY", 5, 5)
    /\ bear > bull => IsSignal(result, "SELL", -5, 5)
    /\ bull = bear => IsSignal(result, "HOLD", 0, 0)

\* C6 as stated: the decision is on the numbers of case-insensitive
\* occurrences of the bullish and of the bearish words, a word that occurs
\* several times counting once per occurrence.
C6_Original ==
    kw_result # NoKwResult =>
        Decides(kw_result, Occurrences(bullish_words, Lower(kw_headline)),
                Occurrences(bearish_words, Lower(kw_headline)))

\* C6 amended: the decision is on the numbers of bullish and of bearish
\* listed words that occur in the lower-cased headline as substrings, each
\* listed word counting once however often it occurs: more bullish gives
\* BUY, +5, 0.5; more bearish SELL, -5, 0.5; as many (0-0 too) HOLD, 0, 0.0.
C6_Amended ==
    kw_result # NoKwResult =>
        Decides(kw_result, Cardinality(Present(bullish_words, kw_headline)),
                Cardinality(Present(bearish_words, kw_headline)))

\* C6's case: "Surge Surge crash" has two occurrences of one bullish word and
\* one bearish word, and the answer is HOLD.
C6_Witness ==
    /\ kw_headline = <<"S","u","r","g","e"," ","S","u","r","g","e"," ","c","r","a","s","h">>
    /\ kw_result.action = "HOLD"

\* The least index of a non-empty set of indices.
MinIndex(S) == CHOOSE i \in S : \A k \in S : i <= k

\* The indices of the catalogue's models that support generateContent and
\* whose name has the word in it, letter case apart.
Named(word) ==
    {i \in DOMAIN list_models.models :
        /\ list_models.models[i].generateContent
        /\ Contains(Lower(list_models.models[i].name), word)}

\* C11: gemini_model is the outcome of the discovery made when the process
\* started and is never set again; over the catalogue's models that support
\* generateContent, in catalogue order, it names the first whose name has
\* "flash" in it if there is one, else the first with "pro" if there is one,
\* else the first; it is None when the key is missing, when discovery raised
\* and when no model supports generateContent; and while it is None every
\* call of ask_gemini returns None without an outbound request or a wait.
C11_ModelSelection ==
    /\ [][/\ gemini_model' = gemini_model
          /\ list_models' = list_models
          /\ GEMINI_API_KEY' = GEMINI_API_KEY]_vars
    /\ [](IF ~GEMINI_API_KEY \/ list_models.raised \/ Named(<<>>) = {}
          THEN gemini_model.isNone
          ELSE /\ ~gemini_model.isNone
               /\ gemini_model.name =
                     list_models.models[
                        MinIndex(IF Named(<<"f","l","a","s","h">>) # {}
                                 THEN Named(<<"f","l","a","s","h">>)
                                 ELSE IF Named(<<"p","r","o">>) # {}
                                      THEN Named(<<"p","r","o">>)
                                      ELSE Named(<<>>))].name)
    /\ [](\A p \in Procs : \A i \in DOMAIN invoked[p] :
            (invoked[p][i].provider = "gemini" /\ gemini_model.isNone) =>
                /\ invoked[p][i].ret.isNone
                /\ invoked[p][i].calls = 0
                /\ invoked[p][i].waits = 0)

\* C11's case: the catalogue lists a "pro" model before a "Flash" model, the
\* handle is the Flash model's, and a request has asked Gemini.
C11_Witness ==
    /\ ~list_models.raised
    /\ Len(list_models.models) = 2
    /\ list_models.models[1].name = <<"p","r","o">>
    /\ list_models.models[2].name = <<"F","l","a","s","h">>
    /\ gemini_model.name = <<"F","l","a","s","h">>
    /\ \E p \in Procs :
          /\ Len(invoked[p]) = 3
          /\ invoked[p][3].provider = "gemini"
          /\ invoked[p][3].calls = 1

\* Whether the provider's key is missing (the Groq client and the Gemini
\* handle exist only with their keys: lines 31-32 and 46-48).
KeyMissing(name) ==
    CASE name = "groq" -> ~groq_client
      [] name = "huggingface" -> ~HUGGINGFACE_API_KEY
      [] name = "gemini" -> ~GEMINI_API_KEY

\* C12 as stated: under every subset of missing keys, the adapter of a
\* provider or source without its key returns None without an outbound
\* request, the chain goes on to the next one, and nothing raises.
C12_MissingKeyOnlyDisables ==
    \A p \in Procs :
        /\ pc[p] # "error"
        /\ ~GEMINI_API_KEY => gemini_model.isNone
        /\ \A i \in DOMAIN invoked[p] :
              KeyMissing(invoked[p][i].provider) =>
                  /\ invoked[p][i].ret.isNone
                  /\ invoked[p][i].calls = 0
                  /\ invoked[p][i].waits = 0
                  /\ (ChainEnded(p) /\ i < Len(Providers)) =>
                        (Len(invoked[p]) > i /\ invoked[p][i + 1].provider = Providers[i + 1])
        /\ (~FINNHUB_API_KEY /\ Len(srcLog[p]) = 2) =>
              /\ srcLog[p][2].df.isNone
              /\ source_calls[p] = 1
              /\ pc[p] \in {"gt_calc", "gt_ret", "hf", "gemini", "respond", "done"}

\* C13 as stated: every wait for a data source is bounded by a timeout, so no
\* call of get_technicals stays waiting and every call returns.
C13_AlwaysReturns ==
    /\ [](\A p \in Procs : pc[p] # "gt_blocked")
    /\ \A p \in Procs : (pc[p] = "gt_lookup") ~> (pc[p] = "gt_ret")

\* C14: a frame of fewer than 20 rows (an empty one too) makes
\* calculate_indicators, when it is called, return None without raising, and
\* get_technicals return None and leave the cache as it was.
C14_ShortSeriesGivesNone ==
    /\ [](\A p \in Procs : pc[p] # "error")
    /\ [][\A p \in Procs :
            (pc[p] = "gt_calc" /\ pc'[p] # "gt_calc" /\ df[p].rows < MinRows) =>
                /\ pc'[p] = "gt_ret"
                /\ technicals'[p].isNone
                /\ TECHNICAL_CACHE' = TECHNICAL_CACHE]_vars
    /\ [](\A p \in Procs :
            (pc[p] = "gt_ret" /\ srcLog[p] # <<>>
               /\ srcLog[p][Len(srcLog[p])].df.rows < MinRows) =>
                /\ technicals[p].isNone
                /\ TECHNICAL_CACHE[symbol[p]].present =>
                      TECHNICAL_CACHE[symbol[p]].timestamp < current_time[p])

\* C14's case: Finnhub gave 19 closes, get_technicals has returned None and
\* the symbol has no entry.
C14_Witness ==
    \E p \in Procs :
        /\ pc[p] = "gt_ret"
        /\ Len(srcLog[p]) = 2
        /\ srcLog[p][2].df.rows = MinRows - 1
        /\ technicals[p].isNone
        /\ ~TECHNICAL_CACHE[symbol[p]].present

\* Properties of a Close column.
NoDownDay(column) == \A i \in 2..Len(column) : column[i] >= column[i - 1]

NoUpDay(column) == \A i \in 2..Len(column) : column[i] <= column[i - 1]

StrictlyIncreasing(column) == \A i \in 2..Len(column) : column[i] > column[i - 1]

ConstantStep(column) ==
    \A i \in 3..Len(column) : column[i] - column[i - 1] = column[2] - column[1]

\* calculate_indicators has returned a dict for the column.
Computed == snapshot # NoSnapshot /\ ~snapshot.isNone

\* C15 as stated: for a column of at least 20 closes whose smoothed average
\* loss at the last bar is 0 (no down day), rsi is 50.0.
C15_Original ==
    (Computed /\ rows.avg_loss = 0) => snapshot.rsi = 5000

\* C15 amended: for a column of at least 20 closes the smoothing history is
\* always sufficient; the smoothed average loss at the last bar is 0 exactly
\* when the column has no down day; then rsi is 50.0 when the smoothed
\* average gain is 0 too (no close differs from the one before) and 100.0
\* when it is not (some up day).
C15_Amended ==
    Computed =>
        /\ Len(Close) >= MinRows
        /\ rows.t >= RsiPeriod
        /\ rows.avg_loss = 0 <=> NoDownDay(Close)
        /\ rows.avg_gain = 0 <=> NoUpDay(Close)
        /\ (NoDownDay(Close) /\ NoUpDay(Close)) => snapshot.rsi = 5000
        /\ (NoDownDay(Close) /\ ~NoUpDay(Close)) => snapshot.rsi = 10000
        /\ snapshot.rsi \in 0..10000

\* C15's case: twenty closes, the last three a dollar up each, none down:
\* rsi is 100.0.
C15_Witness ==
    /\ Computed
    /\ Len(Close) = MinRows
    /\ NoDownDay(Close)
    /\ Close[MinRows] = Close[1] + 3
    /\ rows.avg_loss = 0
    /\ snapshot.rsi = 10000

\* C16 as stated: every column of 90 strictly increasing closes gives
\* rsi > 70, macd_trend BULLISH and bb_status OVEREXTENDED.
C16_Original ==
    (Computed /\ Len(Close) = Days /\ StrictlyIncreasing(Close)) =>
        /\ snapshot.rsi > 7000
        /\ snapshot.macd_trend = "BULLISH"
        /\ snapshot.bb_status = "OVEREXTENDED (UPPER BAND)"

\* C16 amended: every column of 90 strictly increasing closes gives
\* rsi = 100.0 (> 70) and a bb_status that is not OVERSOLD; when the closes
\* rise by the same amount every day, macd_trend is BULLISH and bb_status is
\* NEUTRAL: the last close is 9.5 steps above the 20-period mean and the
\* upper band (2 sample standard deviations) 11.8 steps above it.
C16_Amended ==
    (Computed /\ Len(Close) = Days /\ StrictlyIncreasing(Close)) =>
        /\ snapshot.rsi = 10000
        /\ snapshot.rsi > 7000
        /\ snapshot.bb_status # "OVERSOLD (LOWER BAND)"
        /\ snapshot.price = Close[Days]
        /\ ConstantStep(Close) =>
              /\ snapshot.macd_trend = "BULLISH"
              /\ snapshot.bb_status = "NEUTRAL"

\* C16's case: ninety closes, each a dollar above the one before: rsi 100.0,
\* BULLISH, and NEUTRAL bands.
C16_Witness ==
    /\ Computed
    /\ Len(Close) = Days
    /\ StrictlyIncreasing(Close)
    /\ ConstantStep(Close)
    /\ Close[2] = Close[1] + 1
    /\ snapshot.rsi = 10000
    /\ snapshot.macd_trend = "BULLISH"
    /\ snapshot.bb_status = "NEUTRAL"

\* C17: when get_technicals returned None, analyze still asks the chain,
\* Groq first, every adapter with the prompt whose market context is the
\* placeholder MARKET DATA: UNAVAILABLE; the chain goes on and ends as it
\* does with data, and a usable provider text is the response.
C17_ChainRunsWithoutData ==
    \A p \in Procs :
        /\ (pc[p] = "gt_ret" /\ technicals[p].isNone) =>
              /\ Prompt(p).context = "MARKET DATA: UNAVAILABLE"
              /\ ENABLED AskGroq(p)
        /\ (pc[p] \in {"hf", "gemini", "respond", "done"} /\ technicals[p].isNone) =>
              /\ invoked[p] # <<>>
              /\ invoked[p][1].provider = "groq"
              /\ \A i \in DOMAIN invoked[p] :
                    invoked[p][i].context = "MARKET DATA: UNAVAILABLE"
        /\ (pc[p] \in {"respond", "done"} /\ technicals[p].isNone) =>
              /\ Len(invoked[p]) < Len(Providers) => ~Empty(invoked[p][Len(invoked[p])].ret)
              /\ \A i \in 1..(Len(invoked[p]) - 1) : Empty(invoked[p][i].ret)
        /\ (pc[p] = "done" /\ technicals[p].isNone
              /\ Usable(invoked[p][Len(invoked[p])].ret)) =>
              /\ response[p].kind = "model"
              /\ response[p].members =
                    clean_and_parse_json(invoked[p][Len(invoked[p])].ret).members
        /\ \A i \in DOMAIN invoked[p] :
              invoked[p][i].context = "LIVE MARKET DATA" => ~technicals[p].isNone

\* C17's case: both sources failed, Groq was asked with the placeholder and
\* its JSON object is the response.
C17_Witness ==
    \E p \in Procs :
        /\ pc[p] = "done"
        /\ Len(srcLog[p]) = 2
        /\ technicals[p].isNone
        /\ Len(invoked[p]) = 1
        /\ invoked[p][1].provider = "groq"
        /\ invoked[p][1].context = "MARKET DATA: UNAVAILABLE"
        /\ response[p].kind = "model"
        /\ response[p].members = {"S"}

\* Request p is inside get_technicals, between its lookup and its return.
Fetching(p) == pc[p] \in {"gt_yahoo", "gt_finnhub", "gt_calc"}

\* C18: with requests for the same symbol running together, a request whose
\* lookup finds no entry misses and goes to the sources itself, whatever the
\* others are doing; every request that missed makes its own calls (one to
\* Yahoo at least), which no other request's step changes; no request ever
\* waits for another; and a store puts this request's result and the time it
\* read in the symbol's one entry, in place of what was there.
C18_EachMissFetches ==
    /\ [][\A p \in Procs :
            (LookupStep(p) /\ ~TECHNICAL_CACHE[symbol[p]].present) =>
                /\ pc'[p] = "gt_yahoo"
                /\ source_calls'[p] = 0]_vars
    /\ [][\A p \in Procs :
            (pc[p] = "gt_yahoo" /\ pc'[p] # "gt_yahoo") =>
                /\ source_calls'[p] = 1
                /\ \A q \in Procs \ {p} : source_calls'[q] = source_calls[q]]_vars
    /\ [](\A p \in Procs :
            /\ (pc[p] \in {"gt_finnhub", "gt_calc"} \/ (pc[p] = "gt_ret" /\ srcLog[p] # <<>>))
                  => (source_calls[p] >= 1 /\ srcLog[p][1].source = "yahoo")
            /\ pc[p] = "idle" => ENABLED Arrive(p)
            /\ pc[p] = "gt_lookup" => ENABLED GT_Lookup(p)
            /\ pc[p] = "gt_yahoo" => ENABLED GT_Yahoo(p)
            /\ pc[p] = "gt_finnhub" => ENABLED GT_Finnhub(p)
            /\ pc[p] = "gt_calc" => ENABLED GT_Calc(p))
    /\ [][\A p \in Procs :
            (pc[p] = "gt_calc" /\ pc'[p] = "gt_ret" /\ ~technicals'[p].isNone) =>
                /\ TECHNICAL_CACHE'[symbol[p]] =
                      [present |-> TRUE, data |-> technicals'[p],
                       timestamp |-> current_time[p]]
                /\ \A sym \in Symbols \ {symbol[p]} :
                      TECHNICAL_CACHE'[sym] = TECHNICAL_CACHE[sym]]_vars

\* C18's case: two requests for the same symbol read the clock at the same
\* second, both missed, both went to Yahoo and got different closes, and the
\* symbol has one entry, the result of one of them.
C18_Witness ==
    \E p, q \in Procs :
        /\ p # q
        /\ pc[p] = "gt_ret" /\ pc[q] = "gt_ret"
        /\ symbol[p] = symbol[q]
        /\ current_time[p] = current_time[q]
        /\ source_calls[p] = 1 /\ source_calls[q] = 1
        /\ ~technicals[p].isNone /\ ~technicals[q].isNone
        /\ technicals[p] # technicals[q]
        /\ TECHNICAL_CACHE[symbol[p]].present
        /\ TECHNICAL_CACHE[symbol[p]].data = technicals[q]

\* C19: the timestamp of a symbol's entry never decreases, whatever the
\* interleaving of the calls of get_technicals.
C19_TimestampNeverDecreases ==
    [][\A sym \in Symbols :
          TECHNICAL_CACHE[sym].present =>
              /\ TECHNICAL_CACHE'[sym].present
              /\ TECHNICAL_CACHE'[sym].timestamp >= TECHNICAL_CACHE[sym].timestamp]_vars

\* Outbound calls and sleeps of request p so far.
RECURSIVE Total(_, _)
Total(inv, field) ==
    IF inv = <<>> THEN 0 ELSE inv[1][field] + Total(Tail(inv), field)

\* How far a request is on its way to the response.
Rank(position) ==
    CASE position = "idle" -> 0
      [] position = "gt_lookup" -> 1
      [] position = "gt_yahoo" -> 2
      [] position = "gt_finnhub" -> 3
      [] position = "gt_calc" -> 4
      [] position = "gt_ret" -> 5
      [] position = "hf" -> 6
      [] position = "gemini" -> 7
      [] position = "respond" -> 8
      [] position = "done" -> 9
      [] OTHER -> 10

\* C20: in one request Groq makes at most 1 outbound call and never sleeps;
\* Hugging Face and Gemini make at most 2 each, the second one exactly when
\* the first response was one that is retried (a non-200 mentioning
\* estimated_time; an error with 429), with one 10-second sleep before it;
\* at most 5 calls and 2 sleeps in all; each adapter is invoked at most
\* once, every step takes the request nearer to its response, and until the
\* chain has ended a step is always possible.
C20_BoundedCalls ==
    /\ [](\A p \in Procs :
            /\ \A i \in DOMAIN invoked[p] :
                 LET c == invoked[p][i]
                 IN  /\ c.provider = "groq" => (c.calls <= 1 /\ c.waits = 0 /\ ~c.retry)
                     /\ c.provider \in {"huggingface", "gemini"} =>
                           /\ c.calls <= 2
                           /\ c.calls = 2 <=> c.retry
                           /\ c.waits = (IF c.calls = 2 THEN 1 ELSE 0)
                     /\ \A k \in DOMAIN invoked[p] : k # i => invoked[p][k].provider # c.provider
            /\ Len(invoked[p]) <= Len(Providers)
            /\ Total(invoked[p], "calls") <= 5
            /\ Total(invoked[p], "waits") <= 2
            /\ pc[p] \in {"gt_ret", "hf", "gemini"} =>
                  ENABLED (AskGroq(p) \/ AskHuggingFace(p) \/ AskGemini(p)))
    /\ [][\A p \in Procs :
            (pc'[p] # pc[p] /\ pc[p] # "done") =>
                (Rank(pc'[p]) > Rank(pc[p]) /\ pc'[p] # "error")]_vars
    /\ [][\A p \in Procs :
            (pc[p] = "respond" /\ pc'[p] # "respond") =>
                (pc'[p] = "done" /\ response'[p] # NoResponse)]_vars

\* C20's case: Groq failed after its one call, Hugging Face was loading and
\* failed again, Gemini was rate-limited twice: 5 calls, 2 sleeps, and the
\* request is answered.
C20_Witness ==
    \E p \in Procs :
        /\ pc[p] = "done"
        /\ Len(invoked[p]) = 3
        /\ invoked[p][1].calls = 1
        /\ invoked[p][2].calls = 2 /\ invoked[p][2].retry
        /\ invoked[p][3].calls = 2 /\ invoked[p][3].retry
        /\ Total(invoked[p], "calls") = 5
        /\ Total(invoked[p], "waits") = 2
        /\ response[p] # NoResponse

====
